---------------------------- MODULE Spec2Model ----------------------------
(***************************************************************************)
(* Model of src/generar_reporte.py: the daily weather report for Arecibo.  *)
(*                                                                         *)
(* One run of main() is a linear job: three chained fetches, the           *)
(* classification of alerts and forecast periods, the rendering of the     *)
(* report's tables, the document build, the copy to the "latest" path and  *)
(* the write of the summary record.                                        *)
(*                                                                         *)
(* Encoding of Python values.                                              *)
(*   - text is a TLA+ string; Len, \o and SubSeq act on strings as on      *)
(*     sequences of characters.  Module text is ASCII, so the accented     *)
(*     letters of the table are written unaccented ("Electricas",          *)
(*     "Huracan") and the em dash is written "-": one character each, as   *)
(*     in the source, so lengths and cut-offs are unchanged.               *)
(*   - a value that may be None is wrapped: Null is None, Some(v) is v.    *)
(*   - a dict is a function from its keys to wrapped values; a key that    *)
(*     is missing is not in its DOMAIN.                                    *)
(*   - a list is a sequence.                                               *)
(***************************************************************************)
EXTENDS Integers, Sequences, FiniteSets, TLC

(***************************************************************************)
(* Python values                                                           *)
(***************************************************************************)
Null == <<>>
Some(v) == <<v>>
Missing == <<0, 0>>

EmptyDict == [k \in {} |-> Null]

\* A dict literal: the keys of f whose value is not Missing.
Obj(f) == [k \in {j \in DOMAIN f : f[j] # Missing} |-> f[k]]

\* d.get(k, dflt)
Get(d, k, dflt) == IF k \in DOMAIN d THEN d[k] ELSE dflt

\* bool(x) of a wrapped dict or a wrapped string
TruthyDict(x) == x # Null /\ DOMAIN x[1] # {}
TruthyStr(x) == x # Null /\ x[1] # ""
TruthyBool(x) == x # Null /\ x[1] = TRUE
TruthyNum(x) == x # Null /\ x[1] # 0

\* (x or "")
OrStr(x, dflt) == IF TruthyStr(x) THEN x[1] ELSE dflt

\* (x or {})
OrDict(x) == IF TruthyDict(x) THEN x[1] ELSE EmptyDict

\* s[:n]
Take(s, n) == SubSeq(s, 1, IF Len(s) < n THEN Len(s) ELSE n)

\* k in s
Contains(s, k) ==
    \E i \in 1..(Len(s) - Len(k) + 1) : SubSeq(s, i, i + Len(k) - 1) = k

\* index of the first occurrence of k in s, 0 when there is none
Find(s, k) ==
    LET hits == {i \in 1..(Len(s) - Len(k) + 1) : SubSeq(s, i, i + Len(k) - 1) = k}
    IN  IF hits = {} THEN 0 ELSE CHOOSE i \in hits : \A j \in hits : i <= j

\* s.replace(en, es): the non-overlapping occurrences, leftmost first
RECURSIVE Replace(_, _, _)
Replace(s, en, es) ==
    LET i == Find(s, en)
    IN  IF i = 0 THEN s
        ELSE SubSeq(s, 1, i - 1) \o es
             \o Replace(SubSeq(s, i + Len(en), Len(s)), en, es)

\* s.split(";")[0]
SplitFirst(s) ==
    LET i == Find(s, ";")
    IN  IF i = 0 THEN s ELSE SubSeq(s, 1, i - 1)

UpperChars == "ABCDEFGHIJKLMNOPQRSTUVWXYZ"
LowerChars == "abcdefghijklmnopqrstuvwxyz"

LowerChar(c) ==
    LET i == Find(UpperChars, c)
    IN  IF i = 0 THEN c ELSE SubSeq(LowerChars, i, i)

\* s.lower()
RECURSIVE Lower(_)
Lower(s) ==
    IF Len(s) = 0 THEN ""
    ELSE IF Len(s) = 1 THEN LowerChar(s)
    ELSE LET h == Len(s) \div 2
         IN  Lower(SubSeq(s, 1, h)) \o Lower(SubSeq(s, h + 1, Len(s)))

(***************************************************************************)
(* Colours                                                                 *)
(***************************************************************************)
CYAN == "#00b4d8"
DANGER == "#e63946"
WARN == "#ff6b35"
GOLD == "#ffd166"
SAFE == "#06d6a0"
MUTED == "#7fa8cc"

DASH == "-"

(***************************************************************************)
(* Translation table and traducir                                          *)
(***************************************************************************)
TRADUCCIONES_thunder_first ==
    << <<"Mostly Sunny", "Mayormente Soleado">>,
       <<"Partly Sunny", "Parcialmente Soleado">>,
       <<"Mostly Clear", "Mayormente Despejado">>,
       <<"Partly Cloudy", "Parcialmente Nublado">>,
       <<"Mostly Cloudy", "Mayormente Nublado">>,
       <<"Chance Showers", "Posibilidad de Aguaceros">>,
       <<"Chance Rain", "Posibilidad de Lluvia">>,
       <<"Thunderstorms", "Tormentas Electricas">>,
       <<"Showers", "Aguaceros">>,
       <<"Chance Thunderstorms", "Posibilidad de Tormentas">>,
       <<"Light Rain", "Lluvia Ligera">>,
       <<"Heavy Rain", "Lluvia Intensa">>,
       <<"Rain", "Lluvia">>,
       <<"Sunny", "Soleado">>,
       <<"Clear", "Despejado">>,
       <<"Cloudy", "Nublado">>,
       <<"Overcast", "Cubierto">>,
       <<"Fog", "Neblina">>,
       <<"Haze", "Bruma">>,
       <<"Windy", "Vientos Fuertes">>,
       <<"Breezy", "Ventoso">>,
       <<"Tropical Storm", "Tormenta Tropical">>,
       <<"Hurricane", "Huracan">>,
       <<"Likely", "Probable">> >>

TRADUCCIONES ==
    << <<"Mostly Sunny", "Mayormente Soleado">>,
       <<"Partly Sunny", "Parcialmente Soleado">>,
       <<"Mostly Clear", "Mayormente Despejado">>,
       <<"Partly Cloudy", "Parcialmente Nublado">>,
       <<"Mostly Cloudy", "Mayormente Nublado">>,
       <<"Chance Showers", "Posibilidad de Aguaceros">>,
       <<"Chance Rain", "Posibilidad de Lluvia">>,
       <<"Chance Thunderstorms", "Posibilidad de Tormentas">>,
       <<"Showers", "Aguaceros">>,
       <<"Thunderstorms", "Tormentas Electricas">>,
       <<"Light Rain", "Lluvia Ligera">>,
       <<"Heavy Rain", "Lluvia Intensa">>,
       <<"Rain", "Lluvia">>,
       <<"Sunny", "Soleado">>,
       <<"Clear", "Despejado">>,
       <<"Cloudy", "Nublado">>,
       <<"Overcast", "Cubierto">>,
       <<"Fog", "Neblina">>,
       <<"Haze", "Bruma">>,
       <<"Windy", "Vientos Fuertes">>,
       <<"Breezy", "Ventoso">>,
       <<"Tropical Storm", "Tormenta Tropical">>,
       <<"Hurricane", "Huracan">>,
       <<"Likely", "Probable">> >>

\* the loop of traducir over the entries lo..hi, in the table's order; the
\* range is halved, and each half's result is computed before the next half
\* starts, to keep the evaluation shallow
RECURSIVE ReplaceRange(_, _, _)
ReplaceRange(s, lo, hi) ==
    IF Len(s) = 0 \/ lo > hi THEN s
    ELSE IF lo = hi THEN Replace(s, TRADUCCIONES[lo][1], TRADUCCIONES[lo][2])
    ELSE LET mid == (lo + hi) \div 2
             t == ReplaceRange(s, lo, mid)
         IN  IF Len(t) = 0 THEN t ELSE ReplaceRange(t, mid + 1, hi)

\* traducir(texto); texto may be None
traducir(texto) ==
    IF ~TruthyStr(texto) THEN "" ELSE ReplaceRange(texto[1], 1, Len(TRADUCCIONES))

(***************************************************************************)
(* Severity mappings                                                       *)
(***************************************************************************)
sev_color_minor_dropped(sev) ==
    IF sev = Some("Extreme") THEN DANGER
    ELSE IF sev = Some("Severe") THEN WARN
    ELSE IF sev = Some("Moderate") THEN GOLD
    ELSE MUTED

sev_color(sev) ==
    IF sev = Some("Extreme") THEN DANGER
    ELSE IF sev = Some("Severe") THEN WARN
    ELSE IF sev = Some("Moderate") THEN GOLD
    ELSE IF sev = Some("Minor") THEN SAFE
    ELSE MUTED

sev_es(sev) ==
    IF sev = Some("Extreme") THEN "EXTREMO"
    ELSE IF sev = Some("Severe") THEN "SEVERO"
    ELSE IF sev = Some("Moderate") THEN "MODERADO"
    ELSE IF sev = Some("Minor") THEN "MENOR"
    ELSE OrStr(sev, DASH)

(***************************************************************************)
(* State                                                                   *)
(***************************************************************************)
VARIABLES
    pc,             \* position of main(): the next step to run
    error,          \* where the run raised, "" while it has not
    requests,       \* the URLs fetch_json was called with, in order
    alerts_data,    \* main's locals, as named in the source
    point_data,
    forecast_data,
    alerts,
    periods,
    flood_alerts,
    marine_alerts,
    riesgo,
    r_color,
    today,
    lluvia_val,
    lluvia_str,
    l_color,
    story,          \* the data-bearing cells of the rendered blocks
    files,          \* the files written so far, in order
    info,           \* the summary record written to reports/reporte_info.json
    texto,          \* traducir under test: its input and the results of
    una,            \* one and of two applications
    dos

fetchVars == <<requests, alerts_data, point_data, forecast_data>>
clasVars == <<alerts, periods, flood_alerts, marine_alerts, riesgo, r_color,
              today, lluvia_val, lluvia_str, l_color>>
outVars == <<files, info>>
tradVars == <<texto, una, dos>>
vars == <<pc, error, fetchVars, clasVars, story, outVars, tradVars>>

(***************************************************************************)
(* Bounds                                                                  *)
(***************************************************************************)
MaxAlerts == 2      \* alerts in a response of the full run
MaxPeriods == 2     \* forecast periods in a response of the full run
MaxAlertas == 2     \* alerts in a classified and rendered list
MaxPeriodos == 2    \* periods in a classified and rendered list
MaxPalabras == 2    \* phrases in a translated text

\* the lists of at most n elements of S
ListsUpTo(S, n) == UNION {[1..k -> S] : k \in 0..n}

(***************************************************************************)
(* Paths and URLs                                                          *)
(***************************************************************************)
URL_ALERTS == "https://api.weather.gov/alerts/active?area=PR&limit=25"
URL_POINT == "https://api.weather.gov/points/18.4736,-66.7220"
URL_FORECAST == "https://api.weather.gov/gridpoints/SJU/1,2/forecast"

OUTPUT == "reports/Reporte_Meteorologico_Arecibo_2026-11-02.pdf"
LATEST == "reports/reporte_mas_reciente.pdf"
INFO == "reports/reporte_info.json"

(***************************************************************************)
(* Classification (main, lines 156-228)                                    *)
(***************************************************************************)
FLOOD_KEYS == {"flood", "flash", "inunda"}
MARINE_KEYS == {"marine", "small craft", "surf", "beach", "rip"}

\* a["properties"] of an alert whose lookup does not raise
Props(a) == a["properties"][1]

\* a["properties"].get(...) raises: KeyError, or AttributeError on None
PropsRaises(a) == "properties" \notin DOMAIN a \/ a["properties"] = Null

\* (a["properties"].get("event","") or "").lower()
EventLower(a) == Lower(OrStr(Get(Props(a), "event", Some("")), ""))

IsFlood(a) == LET ev == EventLower(a) IN \E k \in FLOOD_KEYS : Contains(ev, k)
IsMarine(a) == LET ev == EventLower(a) IN \E k \in MARINE_KEYS : Contains(ev, k)

\* a["properties"].get("severity")
Severity(a) == Get(Props(a), "severity", Null)

HasSeverity(l, sev) == \E i \in 1..Len(l) : Severity(l[i]) = Some(sev)

\* alerts = (alerts_data or {}).get("features", []), still wrapped
AlertsOf_no_default(ad) ==
    IF ad = Null THEN Null ELSE Get(ad[1], "features", Some(<<>>))

AlertsOf(ad) == Get(OrDict(ad), "features", Some(<<>>))

\* forecast_data and "properties" in forecast_data
HasProps(d) == TruthyDict(d) /\ "properties" \in DOMAIN d[1]

\* periods, still wrapped (lines 157-159), when the lookup does not raise
PeriodsOf(fd) ==
    IF HasProps(fd) THEN Get(fd[1]["properties"][1], "periods", Some(<<>>))
    ELSE Some(<<>>)

\* where lines 156-228 raise on these payloads, "" when they do not
ClasificarRaises(ad, fd) ==
    IF HasProps(fd) /\ fd[1]["properties"] = Null THEN "forecast_properties"
    ELSE IF AlertsOf(ad) = Null THEN "alerts_iter"
    ELSE IF \E i \in 1..Len(AlertsOf(ad)[1]) : PropsRaises(AlertsOf(ad)[1][i])
         THEN "alert_properties"
    ELSE IF PeriodsOf(fd) = Null THEN "periods_iter"
    ELSE ""

\* the if/elif chain of lines 210-219: <<riesgo, r_color>>
CalcRiesgo_severe_first(flood, als) ==
    IF flood # <<>> /\ HasSeverity(flood, "Severe") THEN <<"ALTO", WARN>>
    ELSE IF flood # <<>> /\ HasSeverity(flood, "Extreme") THEN <<"EXTREMO", DANGER>>
    ELSE IF flood # <<>> THEN <<"MODERADO", GOLD>>
    ELSE IF als # <<>> THEN <<"BAJO-MOD", CYAN>>
    ELSE <<"BAJO", SAFE>>

CalcRiesgo_any_alert_first(flood, als) ==
    IF flood # <<>> /\ HasSeverity(flood, "Extreme") THEN <<"EXTREMO", DANGER>>
    ELSE IF flood # <<>> /\ HasSeverity(flood, "Severe") THEN <<"ALTO", WARN>>
    ELSE IF als # <<>> THEN <<"BAJO-MOD", CYAN>>
    ELSE IF flood # <<>> THEN <<"MODERADO", GOLD>>
    ELSE <<"BAJO", SAFE>>

CalcRiesgo(flood, als) ==
    IF flood # <<>> /\ HasSeverity(flood, "Extreme") THEN <<"EXTREMO", DANGER>>
    ELSE IF flood # <<>> /\ HasSeverity(flood, "Severe") THEN <<"ALTO", WARN>>
    ELSE IF flood # <<>> THEN <<"MODERADO", GOLD>>
    ELSE IF als # <<>> THEN <<"BAJO-MOD", CYAN>>
    ELSE <<"BAJO", SAFE>>

\* p.get("isDaytime") is truthy
IsDaytime(p) == TruthyBool(Get(p, "isDaytime", Null))

\* next((p for p in periods if p.get("isDaytime")), None)
Today(pers) ==
    LET idx == {i \in 1..Len(pers) : IsDaytime(pers[i])}
    IN  IF idx = {} THEN Null
        ELSE Some(pers[CHOOSE i \in idx : \A j \in idx : i <= j])

\* lines 222-223
LluviaVal(tdy) ==
    LET lluvia_pct == Get(OrDict(tdy), "probabilityOfPrecipitation", Some(EmptyDict))
    IN  IF TruthyDict(lluvia_pct) THEN Get(lluvia_pct[1], "value", Null) ELSE Null

\* line 224
LluviaStr(val) == IF val # Null THEN ToString(val[1]) \o "%" ELSE DASH

\* lines 225-228
LluviaColor_strict(val) ==
    IF TruthyNum(val) /\ val[1] > 80 THEN DANGER
    ELSE IF TruthyNum(val) /\ val[1] > 60 THEN WARN
    ELSE IF TruthyNum(val) /\ val[1] > 40 THEN GOLD
    ELSE SAFE

LluviaColor(val) ==
    IF TruthyNum(val) /\ val[1] >= 80 THEN DANGER
    ELSE IF TruthyNum(val) /\ val[1] >= 60 THEN WARN
    ELSE IF TruthyNum(val) /\ val[1] >= 40 THEN GOLD
    ELSE SAFE

(***************************************************************************)
(* Expiry cell (main, lines 260-266)                                       *)
(***************************************************************************)
Digits == "0123456789"

\* the value of a decimal digit, -1 for any other character
DigitVal(c) == Find(Digits, c) - 1

IsNum(s) == \A i \in 1..Len(s) : DigitVal(SubSeq(s, i, i)) >= 0

RECURSIVE Num(_)
Num(s) ==
    IF Len(s) = 0 THEN 0
    ELSE 10 * Num(SubSeq(s, 1, Len(s) - 1)) + DigitVal(SubSeq(s, Len(s), Len(s)))

IsLeap(y) == (y % 4 = 0 /\ y % 100 # 0) \/ y % 400 = 0

DaysIn(y, m) ==
    IF m = 2 THEN (IF IsLeap(y) THEN 29 ELSE 28)
    ELSE IF m \in {4, 6, 9, 11} THEN 30 ELSE 31

Pad2(n) == IF n < 10 THEN "0" \o ToString(n) ELSE ToString(n)

\* datetime.strptime(s, "%Y-%m-%dT%H:%M:%S") accepts s; the timestamps of the
\* model are written with two-digit fields, as the provider writes them
Parses(s) ==
    /\ Len(s) = 19
    /\ SubSeq(s, 5, 5) = "-" /\ SubSeq(s, 8, 8) = "-" /\ SubSeq(s, 11, 11) = "T"
    /\ SubSeq(s, 14, 14) = ":" /\ SubSeq(s, 17, 17) = ":"
    /\ IsNum(SubSeq(s, 1, 4)) /\ IsNum(SubSeq(s, 6, 7)) /\ IsNum(SubSeq(s, 9, 10))
    /\ IsNum(SubSeq(s, 12, 13)) /\ IsNum(SubSeq(s, 15, 16)) /\ IsNum(SubSeq(s, 18, 19))
    /\ Num(SubSeq(s, 1, 4)) >= 1
    /\ Num(SubSeq(s, 6, 7)) \in 1..12
    /\ Num(SubSeq(s, 9, 10)) \in 1..DaysIn(Num(SubSeq(s, 1, 4)), Num(SubSeq(s, 6, 7)))
    /\ Num(SubSeq(s, 12, 13)) \in 0..23
    /\ Num(SubSeq(s, 15, 16)) \in 0..59
    /\ Num(SubSeq(s, 18, 19)) \in 0..59

\* (strptime(s) + timedelta(hours=-4)).strftime("%d/%m %I:%M %p")
FormatMinus4(s) ==
    LET y == Num(SubSeq(s, 1, 4))
        m == Num(SubSeq(s, 6, 7))
        d == Num(SubSeq(s, 9, 10))
        h == Num(SubSeq(s, 12, 13))
        back == h < 4
        h2 == IF back THEN h + 20 ELSE h - 4
        m2 == IF back /\ d = 1 THEN (IF m = 1 THEN 12 ELSE m - 1) ELSE m
        y2 == IF back /\ d = 1 /\ m = 1 THEN y - 1 ELSE y
        d2 == IF ~back THEN d ELSE IF d = 1 THEN DaysIn(y2, m2) ELSE d - 1
        h12 == IF h2 % 12 = 0 THEN 12 ELSE h2 % 12
    IN  Pad2(d2) \o "/" \o Pad2(m2) \o " " \o Pad2(h12) \o ":" \o SubSeq(s, 15, 16)
        \o " " \o (IF h2 < 12 THEN "AM" ELSE "PM")

ExpCell(p) ==
    LET e == Get(p, "expires", Null)
    IN  IF ~TruthyStr(e) THEN DASH
        ELSE IF Parses(Take(e[1], 19)) THEN FormatMinus4(Take(e[1], 19))
        ELSE Take(e[1], 10)

(***************************************************************************)
(* Rendering (main, lines 230-357)                                         *)
(***************************************************************************)
LIM_AREA == 32
LIM_EVENT == 38
LIM_RESUMEN == 40
LIM_SHORT == 45
LIM_DETALLE == 300
LIM_DESC == 400
MAX_ROWS == 14
MAX_CRITICAS == 4
MAX_DIAS == 7

\* line 233
ResumenShort(tdy) ==
    Take(traducir(IF tdy # Null THEN Get(tdy[1], "shortForecast", Some(DASH))
                  ELSE Some(DASH)), LIM_RESUMEN)

\* lines 256-267: one row of the alerts table
AlertRow_cut_after(a) ==
    LET p == Props(a)
    IN  << Take(OrStr(Get(p, "event", Some("")), ""), LIM_EVENT + 1),
           sev_es(Get(p, "severity", Some(""))),
           Take(SplitFirst(OrStr(Get(p, "areaDesc", Some("")), "")), LIM_AREA),
           ExpCell(p) >>

AlertRow(a) ==
    LET p == Props(a)
    IN  << Take(OrStr(Get(p, "event", Some("")), ""), LIM_EVENT),
           sev_es(Get(p, "severity", Some(""))),
           Take(SplitFirst(OrStr(Get(p, "areaDesc", Some("")), "")), LIM_AREA),
           ExpCell(p) >>

\* lines 254-267
ARows(als) ==
    IF als = <<>> THEN <<>>
    ELSE << <<"EVENTO", "SEVERIDAD", "AREA", "EXPIRA">> >>
         \o [i \in 1..Len(Take(als, MAX_ROWS)) |-> AlertRow(als[i])]

\* lines 272-275: the colour of each row's severity cell
ACols(als) ==
    [i \in 1..Len(Take(als, MAX_ROWS)) |->
        sev_color(Get(Props(als[i]), "severity", Some("")))]

IsCritica(a) == Severity(a) \in {Some("Extreme"), Some("Severe")}

\* desc = p2.get("description","") or p2.get("headline","") or ""
Desc(p2) ==
    OrStr(Get(p2, "description", Some("")), OrStr(Get(p2, "headline", Some("")), ""))

\* lines 285-287: one critical-alert detail
Critica(a) ==
    LET p2 == Props(a)
        desc == Desc(p2)
    IN  [event |-> Get(p2, "event", Some("")),
         sev |-> sev_es(Get(p2, "severity", Some(""))),
         color |-> sev_color(Get(p2, "severity", Some(""))),
         desc |-> Take(desc, LIM_DESC) \o (IF Len(desc) > LIM_DESC THEN "..." ELSE "")]

\* lines 280-288
Criticas(als) ==
    LET criticas == Take(SelectSeq(als, IsCritica), MAX_CRITICAS)
    IN  [i \in 1..Len(criticas) |-> Critica(criticas[i])]

\* line 327
DayP(pers) == Take(SelectSeq(pers, IsDaytime), MAX_DIAS)

\* (p.get("probabilityOfPrecipitation") or {}).get("value")
Prob(p) == Get(OrDict(Get(p, "probabilityOfPrecipitation", Null)), "value", Null)

\* lines 338-341: the rain and condition cells of one row of the forecast
\* table; its weekday and temperature cells (lines 330-337) carry no text
\* that is cut or translated and are left out
ForecastRow(p) ==
    << LluviaStr(Prob(p)),
       Take(traducir(Some(OrStr(Get(p, "shortForecast", Some(DASH)), DASH))), LIM_SHORT) >>

\* lines 328-341
FcRows(pers) ==
    IF pers = <<>> THEN <<>>
    ELSE << <<"LLUVIA", "CONDICION">> >>
         \o [i \in 1..Len(DayP(pers)) |-> ForecastRow(DayP(pers)[i])]

\* lines 346-347
ProbColor(p) ==
    LET prob == IF TruthyNum(Prob(p)) THEN Prob(p)[1] ELSE 0
    IN  IF prob >= 80 THEN DANGER ELSE IF prob >= 60 THEN WARN
        ELSE IF prob >= 40 THEN GOLD ELSE SAFE

FcCols(pers) == [i \in 1..Len(DayP(pers)) |-> ProbColor(DayP(pers)[i])]

\* lines 353-355, None when the block is not rendered
Detalle(pers, tdy) ==
    IF pers # <<>> /\ tdy # Null
    THEN Some(Take(traducir(Some(OrStr(Get(tdy[1], "detailedForecast", Some("")), ""))),
                   LIM_DETALLE))
    ELSE Null

EmptyStory ==
    [resumen_short |-> "", a_rows |-> <<>>, a_cols |-> <<>>, criticas |-> <<>>,
     fc_rows |-> <<>>, fc_cols |-> <<>>, detalle |-> Null]

(***************************************************************************)
(* Inputs: the payloads the provider may answer with                       *)
(***************************************************************************)
\* s repeated n times
RECURSIVE Rep(_, _)
Rep(s, n) == IF n = 0 THEN "" ELSE Rep(s, n - 1) \o s

\* a text of n characters that differ from place to place
Relleno(n) == Take(Rep("0123456789abcdefghi ", n \div 20 + 1), n)

Alerta(ev, sev, area, desc, exp) ==
    [properties |-> Some(Obj([event |-> ev, severity |-> sev, areaDesc |-> area,
                              description |-> desc, expires |-> exp]))]

Pop(v) == Some([value |-> v])

Periodo(day, pop, short, det) ==
    Obj([isDaytime |-> day, probabilityOfPrecipitation |-> pop,
         shortForecast |-> short, detailedForecast |-> det])

\* alert elements of the full run: well formed, and with the fields main reads
\* missing or null
RunAlerts ==
    { EmptyDict,
      [properties |-> Null],
      Alerta(Some("Flash Flood Warning"), Some("Extreme"), Some("Arecibo; Hatillo"),
             Some("Flash flooding is ongoing."), Some("2026-11-03T02:30:00-04:00")),
      Alerta(Some("Rip Current Statement"), Some("Moderate"), Some("North Coast"),
             Missing, Null),
      Alerta(Null, Missing, Missing, Missing, Missing) }

AlertsResponses ==
    {Null, Some(EmptyDict), Some([features |-> Null])}
    \cup {Some([features |-> Some(l)]) : l \in ListsUpTo(RunAlerts, MaxAlerts)}

PointResponses ==
    { Null,
      Some(EmptyDict),
      Some([properties |-> Null]),
      Some([properties |-> Some(EmptyDict)]),
      Some([properties |-> Some([forecast |-> Null])]),
      Some([properties |-> Some([forecast |-> Some("")])]),
      Some([properties |-> Some([forecast |-> Some(URL_FORECAST)])]) }

RunPeriods ==
    { EmptyDict,
      Periodo(Some(TRUE), Null, Null, Missing),
      Periodo(Some(TRUE), Pop(Some(85)), Some("Chance Thunderstorms"),
              Some("Heavy Rain Likely")),
      Periodo(Some(FALSE), Pop(Some(20)), Some("Mostly Clear"), Missing) }

ForecastResponses ==
    { Null,
      Some(EmptyDict),
      Some([properties |-> Null]),
      Some([properties |-> Some(EmptyDict)]),
      Some([properties |-> Some([periods |-> Null])]) }
    \cup {Some([properties |-> Some([periods |-> Some(l)])]) :
             l \in ListsUpTo(RunPeriods, MaxPeriods)}

(***************************************************************************)
(* The run of main()                                                       *)
(***************************************************************************)
Raise(site) ==
    /\ pc' = "aborted"
    /\ error' = site

\* line 147: fetch_json returns the decoded payload, or None on any failure
FetchAlerts ==
    /\ pc = "fetch_alerts"
    /\ \E r \in AlertsResponses : alerts_data' = r
    /\ requests' = Append(requests, URL_ALERTS)
    /\ pc' = "fetch_point"
    /\ UNCHANGED <<error, point_data, forecast_data, clasVars, story, outVars, tradVars>>

\* lines 148-149
FetchPoint ==
    /\ pc = "fetch_point"
    /\ \E r \in PointResponses : point_data' = r
    /\ forecast_data' = Null
    /\ requests' = Append(requests, URL_POINT)
    /\ pc' = "fetch_forecast"
    /\ UNCHANGED <<error, alerts_data, clasVars, story, outVars, tradVars>>

\* point_data["properties"].get("forecast") of line 152, when it does not raise
FcUrl(pd) == Get(pd[1]["properties"][1], "forecast", Null)

\* the forecast is fetched: lines 151-153 lead to line 154
WantsForecast(pd) ==
    HasProps(pd) /\ pd[1]["properties"] # Null /\ TruthyStr(FcUrl(pd))

\* the requests line 154 issues: fetch_json opens the URL once
ForecastRequests_retry(pd) == <<FcUrl(pd)[1], FcUrl(pd)[1]>>

ForecastRequests(pd) == <<FcUrl(pd)[1]>>

\* lines 151-154
FetchForecast ==
    /\ pc = "fetch_forecast"
    /\ IF HasProps(point_data) /\ point_data[1]["properties"] = Null
       THEN /\ Raise("point_properties")
            /\ UNCHANGED fetchVars
       ELSE IF WantsForecast(point_data)
       THEN /\ \E r \in ForecastResponses : forecast_data' = r
            /\ requests' = requests \o ForecastRequests(point_data)
            /\ pc' = "clasificar"
            /\ UNCHANGED <<error, alerts_data, point_data>>
       ELSE /\ pc' = "clasificar"
            /\ UNCHANGED <<error, fetchVars>>
    /\ UNCHANGED <<clasVars, story, outVars, tradVars>>

\* lines 156-228
Clasificar ==
    /\ pc = "clasificar"
    /\ IF ClasificarRaises(alerts_data, forecast_data) # ""
       THEN /\ Raise(ClasificarRaises(alerts_data, forecast_data))
            /\ UNCHANGED clasVars
       ELSE LET als == AlertsOf(alerts_data)[1]
                pers == PeriodsOf(forecast_data)[1]
                flood == SelectSeq(als, IsFlood)
                tdy == Today(pers)
            IN  /\ alerts' = als
                /\ periods' = pers
                /\ flood_alerts' = flood
                /\ marine_alerts' = SelectSeq(als, IsMarine)
                /\ riesgo' = CalcRiesgo(flood, als)[1]
                /\ r_color' = CalcRiesgo(flood, als)[2]
                /\ today' = tdy
                /\ lluvia_val' = LluviaVal(tdy)
                /\ lluvia_str' = LluviaStr(LluviaVal(tdy))
                /\ l_color' = LluviaColor(LluviaVal(tdy))
                /\ pc' = "render"
                /\ UNCHANGED error
    /\ UNCHANGED <<fetchVars, story, outVars, tradVars>>

\* lines 230-432
Render ==
    /\ pc = "render"
    /\ story' = [resumen_short |-> ResumenShort(today),
                 a_rows |-> ARows(alerts),
                 a_cols |-> IF alerts = <<>> THEN <<>> ELSE ACols(alerts),
                 criticas |-> IF alerts = <<>> THEN <<>> ELSE Criticas(alerts),
                 fc_rows |-> FcRows(periods),
                 fc_cols |-> IF periods = <<>> THEN <<>> ELSE FcCols(periods),
                 detalle |-> Detalle(periods, today)]
    /\ pc' = "build"
    /\ UNCHANGED <<error, fetchVars, clasVars, outVars, tradVars>>

\* what follows doc.build when it raises: nothing of main runs after it
AfterBuildFailure_goes_on ==
    /\ pc' = "copy"
    /\ UNCHANGED error

AfterBuildFailure == Raise("build")

\* line 435: doc.build writes OUTPUT, or raises
Build ==
    /\ pc = "build"
    /\ \/ /\ files' = Append(files, OUTPUT)
          /\ pc' = "copy"
          /\ UNCHANGED error
       \/ /\ AfterBuildFailure
          /\ UNCHANGED files
    /\ UNCHANGED <<fetchVars, clasVars, story, info, tradVars>>

\* line 440: shutil.copy2 writes LATEST, or raises
Copy ==
    /\ pc = "copy"
    /\ \/ /\ files' = Append(files, LATEST)
          /\ pc' = "info"
          /\ UNCHANGED error
       \/ /\ Raise("copy")
          /\ UNCHANGED files
    /\ UNCHANGED <<fetchVars, clasVars, story, info, tradVars>>

\* lines 444-456
WriteInfo ==
    /\ pc = "info"
    /\ info' = Some([alertas_total |-> Len(alerts),
                     alertas_inundacion |-> Len(flood_alerts),
                     alertas_marinas |-> Len(marine_alerts),
                     lluvia_hoy_pct |-> lluvia_val,
                     riesgo |-> riesgo])
    /\ files' = Append(files, INFO)
    /\ pc' = "done"
    /\ UNCHANGED <<error, fetchVars, clasVars, story, tradVars>>

InitLocals ==
    /\ error = ""
    /\ alerts = <<>>
    /\ periods = <<>>
    /\ flood_alerts = <<>>
    /\ marine_alerts = <<>>
    /\ riesgo = ""
    /\ r_color = ""
    /\ today = Null
    /\ lluvia_val = Null
    /\ lluvia_str = ""
    /\ l_color = ""
    /\ story = EmptyStory
    /\ files = <<>>
    /\ info = Null

NoTraducir ==
    /\ texto = ""
    /\ una = Null
    /\ dos = Null

Init ==
    /\ pc = "fetch_alerts"
    /\ requests = <<>>
    /\ alerts_data = Null
    /\ point_data = Null
    /\ forecast_data = Null
    /\ InitLocals
    /\ NoTraducir

Next ==
    \/ FetchAlerts
    \/ FetchPoint
    \/ FetchForecast
    \/ Clasificar
    \/ Render
    \/ Build
    \/ Copy
    \/ WriteInfo

Spec == Init /\ [][Next]_vars

(***************************************************************************)
(* Classification and rendering of richer payloads: the run from line 156  *)
(* on, after three fetches that succeeded                                  *)
(***************************************************************************)
ClasAlerts ==
    {Alerta(Some(e), Some(s), Some("Arecibo; Hatillo"), Some("Detalle."), Missing) :
        e \in {"FLASH FLOOD WARNING", "Small Craft Advisory"},
        s \in {"Extreme", "Severe", "Moderate"}}
    \cup
    {Alerta(Some("Heat Advisory"), s, Missing, Missing, Null) :
        s \in {Some("Minor"), Some("Unknown"), Some(""), Null, Missing}}
    \cup
    { Alerta(Some("Aviso de Inundaciones"), Some("Minor"), Null, Null, Some("pronto")),
      Alerta(Some(Relleno(60)), Some("Severe"), Some(Relleno(40) \o "; Hatillo"),
             Some(Relleno(401)), Some("2026-11-03T02:30:00-04:00")),
      [properties |-> Some([event |-> Some(Relleno(38)), severity |-> Some("Extreme"),
                            areaDesc |-> Some(Relleno(32)),
                            headline |-> Some(Relleno(400))])] }

ClasValues == {0, 39, 40, 59, 60, 79, 80}

ClasPops ==
    {Missing, Null, Some(EmptyDict), Pop(Null)} \cup {Pop(Some(v)) : v \in ClasValues}

ClasPeriods ==
    {Periodo(Some(TRUE), pop, Missing, Missing) : pop \in ClasPops}
    \cup
    { Periodo(Some(FALSE), Pop(Some(80)), Some("Mostly Clear"), Missing),
      Periodo(Some(FALSE), Missing, Missing, Missing),
      Periodo(Missing, Pop(Some(80)), Some("Sunny"), Missing),
      Periodo(Some(TRUE), Pop(Some(100)),
              Some("Chance Thunderstorms then Heavy Rain Likely and Mostly Cloudy"),
              Some(Rep("Heavy Rain Likely. ", 17))) }

InitInforme ==
    /\ pc = "clasificar"
    /\ requests = <<URL_ALERTS, URL_POINT, URL_FORECAST>>
    /\ point_data = Some([properties |-> Some([forecast |-> Some(URL_FORECAST)])])
    /\ \/ /\ \E l \in ListsUpTo(ClasAlerts, MaxAlertas) :
                alerts_data = Some([features |-> Some(l)])
          /\ forecast_data = Some([properties |-> Some([periods |-> Some(<<>>)])])
       \/ /\ alerts_data = Some([features |-> Some(<<>>)])
          /\ \E l \in ListsUpTo(ClasPeriods, MaxPeriodos) :
                forecast_data = Some([properties |-> Some([periods |-> Some(l)])])
    /\ InitLocals
    /\ NoTraducir

NextInforme ==
    \/ Clasificar
    \/ Render
    \/ Build
    \/ Copy
    \/ WriteInfo

SpecInforme == InitInforme /\ [][NextInforme]_vars

(***************************************************************************)
(* traducir applied once and twice to a text                               *)
(***************************************************************************)
Palabras ==
    {"Chance Thunderstorms", "Thunderstorms", "Tropical Storm", "Storm",
     "Heavy Rain", "Likely", "then", "Tormenta Tropical"}

RECURSIVE Join(_)
Join(ws) ==
    IF Len(ws) = 0 THEN ""
    ELSE IF Len(ws) = 1 THEN ws[1]
    ELSE ws[1] \o " " \o Join(Tail(ws))

Textos ==
    {TRADUCCIONES[i][1] : i \in 1..Len(TRADUCCIONES)}
    \cup {TRADUCCIONES[i][2] : i \in 1..Len(TRADUCCIONES)}
    \cup {Join(ws) : ws \in ListsUpTo(Palabras, MaxPalabras)}

Traducir1 ==
    /\ pc = "traducir"
    /\ una = Null
    /\ una' = Some(traducir(Some(texto)))
    /\ UNCHANGED <<pc, error, fetchVars, clasVars, story, outVars, texto, dos>>

Traducir2 ==
    /\ pc = "traducir"
    /\ una # Null
    /\ dos = Null
    /\ dos' = Some(traducir(una))
    /\ UNCHANGED <<pc, error, fetchVars, clasVars, story, outVars, texto, una>>

InitTraducir ==
    /\ pc = "traducir"
    /\ requests = <<>>
    /\ alerts_data = Null
    /\ point_data = Null
    /\ forecast_data = Null
    /\ InitLocals
    /\ texto \in Textos
    /\ una = Null
    /\ dos = Null

NextTraducir ==
    \/ Traducir1
    \/ Traducir2

SpecTraducir == InitTraducir /\ [][NextTraducir]_vars

(***************************************************************************)
(* Properties                                                              *)
(***************************************************************************)
\* the positions of main() after the classification of lines 156-228
Clasificado == pc \in {"render", "build", "copy", "info", "done"} \/ error \in {"build", "copy"}

\* the positions of main() after the rendering of lines 230-432
Renderizado == pc \in {"build", "copy", "info", "done"} \/ error \in {"build", "copy"}

\* alert i of the list is flood-related and has severity sev
FloodWith(als, sev) ==
    \E i \in 1..Len(als) : IsFlood(als[i]) /\ Severity(als[i]) = Some(sev)

\* C1: the flood-risk level is the first match of: EXTREMO if some
\* flood-related alert has severity Extreme, else ALTO if some has severity
\* Severe, else MODERADO if some alert is flood-related, else BAJO-MOD if
\* there is any alert, else BAJO; whatever else the list holds.
C1_RiesgoFirstMatch ==
    Clasificado =>
        riesgo = IF FloodWith(alerts, "Extreme") THEN "EXTREMO"
                 ELSE IF FloodWith(alerts, "Severe") THEN "ALTO"
                 ELSE IF \E i \in 1..Len(alerts) : IsFlood(alerts[i]) THEN "MODERADO"
                 ELSE IF Len(alerts) > 0 THEN "BAJO-MOD"
                 ELSE "BAJO"

\* an Extreme flood alert listed after a Severe flood alert
C1_Witness ==
    /\ pc = "render"
    /\ riesgo = "EXTREMO"
    /\ Len(alerts) = 2
    /\ IsFlood(alerts[1]) /\ Severity(alerts[1]) = Some("Severe")
    /\ IsFlood(alerts[2]) /\ Severity(alerts[2]) = Some("Extreme")

\* the precipitation value of the first period flagged daytime, Null when
\* there is no such period or the value is absent
C2_Valor(pers) ==
    LET day == {i \in 1..Len(pers) :
                   "isDaytime" \in DOMAIN pers[i] /\ pers[i]["isDaytime"] = Some(TRUE)}
        first == CHOOSE i \in day : \A j \in day : i <= j
        p == pers[first]
    IN  IF day = {} THEN Null
        ELSE IF "probabilityOfPrecipitation" \notin DOMAIN p THEN Null
        ELSE IF p["probabilityOfPrecipitation"] = Null THEN Null
        ELSE IF "value" \notin DOMAIN p["probabilityOfPrecipitation"][1] THEN Null
        ELSE p["probabilityOfPrecipitation"][1]["value"]

\* C2: the rain level is that of the first daytime period's value: >= 80
\* DANGER, 60..79 WARN, 40..59 GOLD, 0..39 SAFE; with no daytime period or no
\* value it is SAFE, shown as the no-data marker, which is not "0%", and
\* recorded as null in the summary, where a true zero is recorded as 0.
C2_LluviaBuckets ==
    Clasificado =>
        LET v == C2_Valor(periods)
        IN  /\ lluvia_val = v
            /\ v = Null => l_color = SAFE /\ lluvia_str = DASH
            /\ v # Null /\ v[1] >= 80 => l_color = DANGER
            /\ v # Null /\ v[1] \in 60..79 => l_color = WARN
            /\ v # Null /\ v[1] \in 40..59 => l_color = GOLD
            /\ v # Null /\ v[1] \in 0..39 => l_color = SAFE
            /\ v # Null => lluvia_str = ToString(v[1]) \o "%" /\ lluvia_str # DASH
            /\ v = Some(0) => lluvia_str = "0%"
            /\ info # Null => info[1]["lluvia_hoy_pct"] = v

\* a run that recorded a value on the boundary of the highest bucket
C2_Witness ==
    /\ pc = "done"
    /\ lluvia_val = Some(80)
    /\ l_color = DANGER
    /\ info[1]["lluvia_hoy_pct"] = Some(80)

\* s is a prefix of t
IsPrefixSeq(s, t) == Len(s) <= Len(t) /\ SubSeq(t, 1, Len(s)) = s

\* C3: a run whose document build fails aborts, and neither the copy to
\* reports/reporte_mas_reciente.pdf nor the write of reports/reporte_info.json
\* happens in it; the files are written in the order build, copy, summary.
C3_BuildFailureAborts ==
    /\ IsPrefixSeq(files, <<OUTPUT, LATEST, INFO>>)
    /\ pc \in {"copy", "info", "done"} => Len(files) >= 1
    /\ info # Null <=> Len(files) = 3
    /\ error = "build" => pc = "aborted" /\ files = <<>> /\ info = Null
    /\ pc = "aborted" => ~ENABLED Next

\* a run whose build failed
C3_Witness ==
    /\ pc = "aborted"
    /\ error = "build"
    /\ files = <<>>

\* the decoded payload has a forecast reference
HasForecastRef(pd) ==
    /\ pd # Null
    /\ "properties" \in DOMAIN pd[1]
    /\ pd[1]["properties"] # Null
    /\ "forecast" \in DOMAIN pd[1]["properties"][1]
    /\ pd[1]["properties"][1]["forecast"] \notin {Null, Some("")}

\* C4: whichever fetches fail (fetch_json returns None), the failure does not
\* abort the run before the document build: a run aborts before the build only
\* where it reads a payload that was decoded; missing alerts are an empty
\* alert list, a missing point lookup or forecast an empty period list; and
\* when all fetches failed the summary has the counts 0, lluvia_hoy_pct null
\* and riesgo BAJO.
C4_FetchFailuresDegrade ==
    /\ error \in {"alerts_iter", "alert_properties"} => alerts_data # Null
    /\ error = "point_properties" => point_data # Null
    /\ error \in {"forecast_properties", "periods_iter"} =>
           point_data # Null /\ forecast_data # Null
    /\ alerts_data = Null /\ point_data = Null /\ pc = "aborted" =>
           error \in {"build", "copy"}
    /\ Clasificado /\ alerts_data = Null =>
           alerts = <<>> /\ flood_alerts = <<>> /\ marine_alerts = <<>>
    /\ Clasificado /\ (point_data = Null \/ forecast_data = Null) =>
           periods = <<>> /\ today = Null
    /\ pc = "done" /\ alerts_data = Null /\ (point_data = Null \/ forecast_data = Null) =>
           info = Some([alertas_total |-> 0, alertas_inundacion |-> 0,
                        alertas_marinas |-> 0, lluvia_hoy_pct |-> Null,
                        riesgo |-> "BAJO"])

\* a finished run in which every request that was issued failed
C4_Witness ==
    /\ pc = "done"
    /\ alerts_data = Null
    /\ point_data = Null
    /\ forecast_data = Null
    /\ info # Null
    /\ info[1]["riesgo"] = "BAJO"

\* C5: whichever of the fields main reads are missing or null in a decoded
\* payload, the run reaches the document build without raising.
C5_NoRaiseBeforeBuild ==
    pc = "aborted" => error \in {"build", "copy"}

\* C9: the requests are issued in the order alerts, point lookup, forecast,
\* each at most once; the point lookup is issued whatever the alerts request
\* returned; the forecast is requested if and only if the point lookup
\* succeeded and its payload has a forecast reference.
C9_RequestChain ==
    /\ IsPrefixSeq(requests, <<URL_ALERTS, URL_POINT, URL_FORECAST>>)
    /\ pc # "fetch_alerts" => Len(requests) >= 1
    /\ pc \notin {"fetch_alerts", "fetch_point"} => Len(requests) >= 2
    /\ pc \notin {"fetch_alerts", "fetch_point", "fetch_forecast"} =>
           (Len(requests) = 3 <=> HasForecastRef(point_data))
    /\ Len(requests) < 3 => forecast_data = Null

\* the forecast was requested in a run whose alerts request failed
C9_Witness ==
    /\ pc = "clasificar"
    /\ alerts_data = Null
    /\ requests = <<URL_ALERTS, URL_POINT, URL_FORECAST>>

\* C6: traducir applied twice gives what traducir applied once gives.
C6_Idempotent ==
    dos # Null => dos = una

\* C7: in TRADUCCIONES a source phrase that contains another source phrase
\* comes before it, and traducir maps every source phrase of the table to its
\* own translation; "Chance Thunderstorms" becomes "Posibilidad de Tormentas",
\* not the text that replacing only "Thunderstorms" gives.
C7_TableOrder ==
    /\ \A i, j \in 1..Len(TRADUCCIONES) :
           i # j /\ Contains(TRADUCCIONES[i][1], TRADUCCIONES[j][1]) => i < j
    /\ \A i \in 1..Len(TRADUCCIONES) :
           una # Null /\ texto = TRADUCCIONES[i][1] => una = Some(TRADUCCIONES[i][2])
    /\ una # Null /\ texto = "Chance Thunderstorms" =>
           /\ una = Some("Posibilidad de Tormentas")
           /\ una # Some(Replace("Chance Thunderstorms", "Thunderstorms",
                                 "Tormentas Electricas"))

\* the compound phrase, translated
C7_Witness ==
    /\ texto = "Chance Thunderstorms"
    /\ una = Some("Posibilidad de Tormentas")

\* the severity main passes to sev_es and sev_color for the row of alert a
C8_Input(a) ==
    IF "severity" \in DOMAIN Props(a) THEN Props(a)["severity"] ELSE Some("")

C8_Known == {Some("Extreme"), Some("Severe"), Some("Moderate"), Some("Minor")}

C8_KnownCells(i) ==
    LET sev == C8_Input(alerts[i])
        label == story.a_rows[i + 1][2]
        color == story.a_cols[i]
    IN  /\ sev = Some("Extreme") => label = "EXTREMO" /\ color = DANGER
        /\ sev = Some("Severe") => label = "SEVERO" /\ color = WARN
        /\ sev = Some("Moderate") => label = "MODERADO" /\ color = GOLD
        /\ sev = Some("Minor") => label = "MENOR" /\ color = SAFE

\* C8 as stated: each of the four severities has its own colour and label, and
\* every other input has the colour MUTED and the one label "-".
C8_NeutralDefault ==
    Renderizado =>
        \A i \in 1..Len(alerts) :
            /\ C8_KnownCells(i)
            /\ C8_Input(alerts[i]) \notin C8_Known =>
                   story.a_cols[i] = MUTED /\ story.a_rows[i + 1][2] = DASH

\* C8, amended: each of the four severities has its own colour and label;
\* every other input has the colour MUTED; its label is "-" when the input is
\* empty or absent, and the input itself when it is an unrecognized text.
C8_DefaultOrEcho ==
    Renderizado =>
        \A i \in 1..Len(alerts) :
            /\ C8_KnownCells(i)
            /\ C8_Input(alerts[i]) \notin C8_Known =>
                   /\ story.a_cols[i] = MUTED
                   /\ story.a_rows[i + 1][2] =
                          IF C8_Input(alerts[i]) \in {Null, Some("")} THEN DASH
                          ELSE C8_Input(alerts[i])[1]

\* rows of an unrecognized severity, of an absent one and of Minor
C8_Witness ==
    /\ pc = "build"
    /\ Len(alerts) = 2
    /\ story.a_rows[2][2] = "Unknown" /\ story.a_cols[1] = MUTED
    /\ story.a_rows[3][2] = "MENOR" /\ story.a_cols[2] = SAFE

\* the text of a field that may be missing or null
TextOf(d, k) == IF k \in DOMAIN d /\ d[k] # Null THEN d[k][1] ELSE ""

\* cell is the hard cut-off of src at lim characters
CutAt(cell, src, lim) ==
    /\ IsPrefixSeq(cell, src)
    /\ Len(cell) = IF Len(src) < lim THEN Len(src) ELSE lim

\* the first ";"-separated part of an area description
C10_Area(src) == IF Contains(src, ";") THEN SubSeq(src, 1, Find(src, ";") - 1) ELSE src

\* the description shown for a critical alert comes from its description, or
\* from its headline when it has none
C10_DescSrc(p) ==
    IF TextOf(p, "description") # "" THEN TextOf(p, "description") ELSE TextOf(p, "headline")

\* alert a with another event name
C10_WithEvent(a, ev) ==
    [properties |-> Some([k \in DOMAIN Props(a) \cup {"event"} |->
                             IF k = "event" THEN Some(ev) ELSE Props(a)[k]])]

\* the cells of the alerts table: event cut at 38, area cut at 32, and the
\* severity, area and expiry cells those of the same alert with a short name
C10_AlertCells ==
    \A i \in 1..Len(alerts) :
        LET p == Props(alerts[i])
            row == story.a_rows[i + 1]
            other == AlertRow(C10_WithEvent(alerts[i], "Aviso"))
        IN  /\ Len(row) = 4
            /\ CutAt(row[1], TextOf(p, "event"), LIM_EVENT)
            /\ CutAt(row[3], C10_Area(TextOf(p, "areaDesc")), LIM_AREA)
            /\ row[2] = other[2] /\ row[3] = other[3] /\ row[4] = other[4]

\* the condition cells of the forecast table, and today's detailed forecast:
\* the translated text, cut at 45 and at 300
C10_ForecastCells ==
    /\ \A i \in 1..(Len(story.fc_rows) - 1) :
           LET p == SelectSeq(periods, IsDaytime)[i]
               src == IF TextOf(p, "shortForecast") = "" THEN DASH
                      ELSE TextOf(p, "shortForecast")
           IN  CutAt(story.fc_rows[i + 1][2], traducir(Some(src)), LIM_SHORT)
    /\ story.detalle # Null =>
           CutAt(story.detalle[1],
                 traducir(Some(TextOf(today[1], "detailedForecast"))), LIM_DETALLE)

\* C10 as stated: every long text field is the hard cut-off of its text at
\* its limit: area 32, event 38, condition 45, detailed forecast 300 and
\* critical-alert description 400.
C10_AllWithinLimit ==
    Renderizado =>
        /\ C10_AlertCells
        /\ C10_ForecastCells
        /\ \A i \in 1..Len(story.criticas) :
               CutAt(story.criticas[i].desc,
                     C10_DescSrc(Props(SelectSeq(alerts, IsCritica)[i])), LIM_DESC)

\* C10, amended: area 32, event 38, condition 45 and detailed forecast 300 are
\* hard cut-offs (the forecast texts cut after translation); the description
\* of a critical alert is its first 400 characters, followed by "..." when it
\* is longer, so up to 403 characters.
C10_CutOffsAndEllipsis ==
    Renderizado =>
        /\ C10_AlertCells
        /\ C10_ForecastCells
        /\ \A i \in 1..Len(story.criticas) :
               LET src == C10_DescSrc(Props(SelectSeq(alerts, IsCritica)[i]))
                   shown == story.criticas[i].desc
               IN  /\ CutAt(SubSeq(shown, 1, IF Len(src) < LIM_DESC THEN Len(src)
                                             ELSE LIM_DESC), src, LIM_DESC)
                   /\ Len(src) <= LIM_DESC => shown = src
                   /\ Len(src) > LIM_DESC =>
                          /\ Len(shown) = LIM_DESC + 3
                          /\ SubSeq(shown, LIM_DESC + 1, LIM_DESC + 3) = "..."

\* a 60-character event name rendered as its first 38 characters, with a
\* description of 401 characters shown with the ellipsis
C10_Witness ==
    /\ pc = "build"
    /\ Len(alerts) >= 1
    /\ Len(TextOf(Props(alerts[1]), "event")) = 60
    /\ Len(story.a_rows[2][1]) = 38
    /\ Len(story.a_rows[2][3]) = 32
    /\ Len(story.criticas) >= 1
    /\ Len(story.criticas[1].desc) = 403

\* a forecast whose translated texts are cut at 45 and at 300 characters
C10_WitnessForecast ==
    /\ pc = "build"
    /\ Len(story.fc_rows) >= 2
    /\ Len(story.fc_rows[2][2]) = 45
    /\ story.detalle # Null
    /\ Len(story.detalle[1]) = 300

\* the summary record of lines 444-456, once written
Record == info[1]

\* C11: every summary record written by a run is internally consistent:
\* alertas_inundacion <= alertas_total and alertas_marinas <= alertas_total;
\* riesgo = BAJO iff alertas_total = 0; riesgo is one of EXTREMO, ALTO,
\* MODERADO iff alertas_inundacion > 0; riesgo = BAJO-MOD iff
\* alertas_total > 0 and alertas_inundacion = 0.
C11_RecordConsistent ==
    info # Null =>
        /\ Record.alertas_inundacion <= Record.alertas_total
        /\ Record.alertas_marinas <= Record.alertas_total
        /\ (Record.riesgo = "BAJO") <=> (Record.alertas_total = 0)
        /\ (Record.riesgo \in {"EXTREMO", "ALTO", "MODERADO"})
               <=> (Record.alertas_inundacion > 0)
        /\ (Record.riesgo = "BAJO-MOD")
               <=> (Record.alertas_total > 0 /\ Record.alertas_inundacion = 0)

\* a record written for two alerts, one flood-related of no notable severity
\* and one marine: MODERADO with 1 <= 2 in both counts
C11_Witness ==
    /\ pc = "done"
    /\ info # Null
    /\ Record.alertas_total = 2
    /\ Record.alertas_inundacion = 1
    /\ Record.alertas_marinas = 1
    /\ Record.riesgo = "MODERADO"

=============================================================================
